---- MODULE Spec2Model ----
(***************************************************************************)
(* Model of src/run.py: the experiment sweep (main) and the per-run       *)
(* lifecycle (run).                                                        *)
(*                                                                         *)
(* Strings are sequences of one-character strings, so that building an    *)
(* override ("key" + "=" + str(value)) and reading it back (split at the  *)
(* first "=", parse the value) are computations and not identities.       *)
(***************************************************************************)
EXTENDS Integers, Sequences, FiniteSets, TLC

VARIABLES
    pc,                 \* position of main(): see MainPcs
    experiment_params,  \* run.py:114  dict of the YAML file, in file order
    params0,            \* the dict as it was loaded from the file (history)
    overrides,          \* run.py:106  the global override list (argument of main)
    overrides0,         \* the list as it was passed to main (history)
    param_grid,         \* run.py:119  the points ParameterGrid iterates over
    idx,                \* run.py:120  position of the for loop in param_grid
    param_overrides,    \* run.py:121  the override list of the current point
    cfg,                \* run.py:129  the composed configuration
    run_pc,             \* position inside run(): see RunPcs
    rng,                \* the three process-wide random sources
    git_diff,           \* run.py:83   what get_git_diff() returns
    base_config,        \* run.py:113  the logging section of the named template
    files,              \* the files written so far, each with the run that wrote it
    fs_ckpt,            \* whether the checkpoint directory holds artifacts
    log,                \* messages given to logging.info, in order
    stderr,             \* what the interpreter prints for an uncaught exception
    trace               \* history: the calls made so far, in order

vars == <<pc, experiment_params, params0, overrides, overrides0, param_grid, idx,
          param_overrides, cfg, run_pc, rng, git_diff, base_config, files,
          fs_ckpt, log, stderr, trace>>

-----------------------------------------------------------------------------
(* Bounds of the model *)

MaxListLen == 2     \* length of a parameter's value list
MaxPoints == 4      \* points of the grid
MaxOverrides == 1   \* global overrides on the command line

-----------------------------------------------------------------------------
(* Strings *)

K_lr == <<"l", "r">>
K_seed == <<"s", "e", "e", "d">>
K_x == <<"x">>

\* the keys the "parameters" mapping may vary; K_x occurs in global overrides
ParamNames == {K_lr, K_seed}

\* Code point of the characters that occur in keys (Python compares strings
\* by code point).
Ord(c) ==
    CASE c = "d" -> 100 [] c = "e" -> 101 [] c = "l" -> 108
      [] c = "r" -> 114 [] c = "s" -> 115 [] c = "x" -> 120
      [] OTHER -> 0

RECURSIVE StrLess(_, _)
StrLess(a, b) ==
    IF b = <<>> THEN FALSE
    ELSE IF a = <<>> THEN TRUE
    ELSE IF Ord(Head(a)) # Ord(Head(b)) THEN Ord(Head(a)) < Ord(Head(b))
    ELSE StrLess(Tail(a), Tail(b))

DigitChars == <<"0", "1", "2", "3", "4", "5", "6", "7", "8", "9">>

IsDigit(c) == \E i \in 1..Len(DigitChars) : DigitChars[i] = c

DigitVal(c) == (CHOOSE i \in 1..Len(DigitChars) : DigitChars[i] = c) - 1

RECURSIVE Digits(_)
Digits(n) ==
    IF n < Len(DigitChars) THEN <<DigitChars[n + 1]>>
    ELSE Digits(n \div Len(DigitChars)) \o <<DigitChars[(n % Len(DigitChars)) + 1]>>

RECURSIVE ToNat(_)
ToNat(s) ==
    IF s = <<>> THEN 0
    ELSE ToNat(SubSeq(s, 1, Len(s) - 1)) * Len(DigitChars) + DigitVal(s[Len(s)])

AllDigits(s) == s # <<>> /\ \A i \in 1..Len(s) : IsDigit(s[i])

RECURSIVE Zeros(_)
Zeros(n) == IF n <= 0 THEN <<>> ELSE <<"0">> \o Zeros(n - 1)

-----------------------------------------------------------------------------
(* Values of the YAML file and of the configuration *)

IntVal(n) == [t |-> "int", n |-> n]
\* m * 10^(-e), 0 < m * 10^(-e) < 1, m not a multiple of ten
FloatVal(m, e) == [t |-> "float", m |-> m, e |-> e]
StrVal(s) == [t |-> "str", s |-> s]
\* the value the configuration template itself gives to key k
TemplateVal(k) == [t |-> "template", k |-> k]

\* str(value) of run.py:124, for ints and for floats in [0.0001, 1)
PyStr(v) ==
    CASE v.t = "int" -> Digits(v.n)
      [] v.t = "float" ->
            <<"0", ".">> \o Zeros(v.e - Len(Digits(v.m))) \o Digits(v.m)
      [] OTHER -> v.s

\* the value Hydra's override grammar reads from the text after "="
ParseValue(s) ==
    IF AllDigits(s) THEN IntVal(ToNat(s))
    ELSE IF Len(s) > 2 /\ s[1] = "0" /\ s[2] = "."
            /\ AllDigits(SubSeq(s, 3, Len(s)))
            /\ ToNat(SubSeq(s, 3, Len(s))) > 0
         THEN FloatVal(ToNat(SubSeq(s, 3, Len(s))), Len(s) - 2)
         ELSE StrVal(s)

-----------------------------------------------------------------------------
(* The parameter grid (sklearn.model_selection.ParameterGrid, run.py:119) *)

ListVal(items) == [t |-> "list", items |-> items]

\* as Normalized, without the isinstance test: every value is wrapped
Normalized_WrapAll(params) ==
    [i \in DOMAIN params |-> [k |-> params[i].k, v |-> ListVal(<<params[i].v>>)]]

\* run.py:115-117: a value that is not a list becomes a one-element list
Normalized(params) ==
    [i \in DOMAIN params |->
        IF params[i].v.t = "list" THEN params[i]
        ELSE [k |-> params[i].k, v |-> ListVal(<<params[i].v>>)]]

\* insert item it into the sequence s, which is sorted by key
RECURSIVE Insert(_, _)
Insert(it, s) ==
    IF s = <<>> THEN <<it>>
    ELSE IF StrLess(it.k, Head(s).k) THEN <<it>> \o s
    ELSE <<Head(s)>> \o Insert(it, Tail(s))

\* sorted(p.items()): the items of the dict, by key
RECURSIVE SortedItems(_)
SortedItems(params) ==
    IF params = <<>> THEN <<>>
    ELSE Insert(Head(params), SortedItems(Tail(params)))

RECURSIVE Flatten(_)
Flatten(ss) == IF ss = <<>> THEN <<>> ELSE Head(ss) \o Flatten(Tail(ss))

\* mutant: the lists are paired up (zip) instead of crossed
Product_Zip(lists) ==
    IF lists = <<>> THEN << <<>> >>
    ELSE LET n == CHOOSE m \in {Len(lists[i]) : i \in 1..Len(lists)} :
                    \A i \in 1..Len(lists) : m <= Len(lists[i])
         IN [j \in 1..n |-> [i \in 1..Len(lists) |-> lists[i][j]]]

\* mutant: the first list varies fastest
RECURSIVE Product_FirstFastest(_)
Product_FirstFastest(lists) ==
    IF lists = <<>> THEN << <<>> >>
    ELSE LET rest == Product_FirstFastest(Tail(lists))
             first == Head(lists)
         IN Flatten([j \in 1..Len(rest) |->
                        [i \in 1..Len(first) |-> <<first[i]>> \o rest[j]]])

\* itertools.product(*lists): the last list varies fastest
RECURSIVE Product(_)
Product(lists) ==
    IF lists = <<>> THEN << <<>> >>
    ELSE LET rest == Product(Tail(lists))
             first == Head(lists)
         IN Flatten([i \in 1..Len(first) |->
                        [j \in 1..Len(rest) |-> <<first[i]>> \o rest[j]]])

\* mutant: an empty mapping yields no point at all
ParameterGrid_NoEmptyPoint(params) ==
    LET items == SortedItems(params)
        points == Product([i \in 1..Len(items) |-> items[i].v.items])
    IN IF items = <<>> THEN <<>>
       ELSE [p \in 1..Len(points) |->
                [i \in 1..Len(items) |-> [k |-> items[i].k, v |-> points[p][i]]]]

\* the sequence of dicts ParameterGrid yields; a dict is the sequence of its
\* (key, value) pairs in insertion order
ParameterGrid(params) ==
    LET items == SortedItems(params)
        points == Product([i \in 1..Len(items) |-> items[i].v.items])
    IN IF items = <<>> THEN << <<>> >>
       ELSE [p \in 1..Len(points) |->
                [i \in 1..Len(items) |-> [k |-> items[i].k, v |-> points[p][i]]]]

\* run.py:121-124: one "key=value" string per key of the point
GridOverrides(param_set) ==
    [i \in 1..Len(param_set) |->
        param_set[i].k \o <<"=">> \o PyStr(param_set[i].v)]

\* mutant: the global overrides are put first
PointOverrides_GlobalsFirst(param_set, globals) ==
    globals \o GridOverrides(param_set)

\* run.py:121-127: the grid's entries, then the global overrides
PointOverrides(param_set, globals) == GridOverrides(param_set) \o globals

-----------------------------------------------------------------------------
(* Composition (hydra.experimental.compose, run.py:129) *)

\* keys of the configuration template; K_x is not one of them
TemplateKeys == {K_lr, K_seed}

HasEq(s) == \E i \in 1..Len(s) : s[i] = "="

EqPos(s) == CHOOSE i \in 1..Len(s) : s[i] = "=" /\ \A j \in 1..(i - 1) : s[j] # "="

OverrideKey(s) == SubSeq(s, 1, EqPos(s) - 1)

OverrideValue(s) == SubSeq(s, EqPos(s) + 1, Len(s))

NoCfg == [v |-> <<>>, resume |-> "none"]

TemplateCfg ==
    [v |-> [k \in TemplateKeys |-> TemplateVal(k)], resume |-> "unset",
     logging |-> base_config]

\* the overrides are applied to the tree one after the other, in list order;
\* an entry without "=" or with a key the template lacks is an error
RECURSIVE ApplyOverrides(_, _)
ApplyOverrides(c, ovs) ==
    IF ovs = <<>> THEN [ok |-> TRUE, cfg |-> c]
    ELSE LET o == Head(ovs) IN
         IF ~HasEq(o) \/ OverrideKey(o) \notin TemplateKeys
         THEN [ok |-> FALSE, cfg |-> NoCfg]
         ELSE ApplyOverrides(
                 [c EXCEPT !.v[OverrideKey(o)] = ParseValue(OverrideValue(o))],
                 Tail(ovs))

Compose(ovs) == ApplyOverrides(TemplateCfg, ovs)

-----------------------------------------------------------------------------
(* Paths (os.path and the file system, run.py:63-67, 79-86, 93) *)

\* os.getcwd()
Cwd == <<"/", "w">>

IsAbs(s) == s # <<>> /\ s[1] = "/"

\* the pieces of s between its slashes
RECURSIVE Components(_)
Components(s) ==
    IF s = <<>> THEN << <<>> >>
    ELSE LET rest == Components(Tail(s)) IN
         IF Head(s) = "/" THEN << <<>> >> \o rest
         ELSE << <<Head(s)>> \o Head(rest) >> \o Tail(rest)

\* the components that remain once "", "." and ".." are resolved
RECURSIVE Collapse(_, _, _)
Collapse(comps, acc, abs) ==
    IF comps = <<>> THEN acc
    ELSE LET c == Head(comps) IN
         IF c = <<>> \/ c = <<".">> THEN Collapse(Tail(comps), acc, abs)
         ELSE IF c = <<".", ".">> THEN
                IF acc # <<>> /\ acc[Len(acc)] # <<".", ".">>
                THEN Collapse(Tail(comps), SubSeq(acc, 1, Len(acc) - 1), abs)
                ELSE IF abs THEN Collapse(Tail(comps), acc, abs)
                ELSE Collapse(Tail(comps), Append(acc, c), abs)
         ELSE Collapse(Tail(comps), Append(acc, c), abs)

RECURSIVE JoinSlash(_)
JoinSlash(comps) ==
    IF comps = <<>> THEN <<>>
    ELSE IF Len(comps) = 1 THEN Head(comps)
    ELSE Head(comps) \o <<"/">> \o JoinSlash(Tail(comps))

\* os.path.normpath(s)
Normpath(s) ==
    LET body == JoinSlash(Collapse(Components(s), <<>>, IsAbs(s)))
    IN IF IsAbs(s) THEN <<"/">> \o body
       ELSE IF body = <<>> THEN <<".">> ELSE body

\* os.path.join(a, b)
JoinPath(a, b) ==
    IF IsAbs(b) \/ a = <<>> THEN b
    ELSE IF a[Len(a)] = "/" THEN a \o b
    ELSE a \o <<"/">> \o b

\* the file the operating system reaches for path s: a relative path is
\* taken from the working directory
Resolve(s) == IF IsAbs(s) THEN Normpath(s) ELSE Normpath(Cwd \o <<"/">> \o s)

\* the directory that holds the file or directory s
Dirname(s) ==
    LET slashes == {i \in 1..Len(s) : s[i] = "/"}
        last == CHOOSE i \in slashes : \A j \in slashes : j <= i
    IN IF slashes = {} THEN <<>>
       ELSE IF last = 1 THEN <<"/">>
       ELSE SubSeq(s, 1, last - 1)

\* the name and version the logger is given (cfg.logging.name / version)
RunName == <<"r">>

\* tb_logger.log_dir: the save directory joined with name and version
LogDir(c) == JoinPath(c.logging.path, RunName)

S_checkpoints == <<"/", "c", "h", "e", "c", "k", "p", "o", "i", "n", "t", "s">>
S_exports == <<"/", "e", "x", "p", "o", "r", "t", "s">>
S_model_onnx == <<"/", "m", "o", "d", "e", "l", ".", "o", "n", "n", "x">>
S_git_diff_patch ==
    <<"/", "g", "i", "t", "_", "d", "i", "f", "f", ".", "p", "a", "t", "c", "h">>
S_last_ckpt == <<"/", "l", "a", "s", "t", ".", "c", "k", "p", "t">>

\* run.py:79: os.path.normpath(os.getcwd() + "/./" + tb_logger.log_dir)
CurrentLogPath(c) == Normpath(Cwd \o <<"/", ".", "/">> \o LogDir(c))

\* as Callbacks, with the export callback registered for a period of zero too
Callbacks_NonNegative(c) ==
    <<[cls |-> "ModelCheckpoint", dirpath |-> LogDir(c) \o S_checkpoints]>>
    \o (IF c.logging.export_period >= 0
        THEN <<[cls |-> "ModelExport", dirpath |-> LogDir(c) \o S_exports]>>
        ELSE <<>>)
    \o <<[cls |-> "LearningRateMonitor", dirpath |-> <<>>]>>

\* run.py:62-68: the callbacks handed to the trainer, in list order
Callbacks(c) ==
    <<[cls |-> "ModelCheckpoint", dirpath |-> LogDir(c) \o S_checkpoints]>>
    \o (IF c.logging.export_period > 0
        THEN <<[cls |-> "ModelExport", dirpath |-> LogDir(c) \o S_exports]>>
        ELSE <<>>)
    \o <<[cls |-> "LearningRateMonitor", dirpath |-> <<>>]>>

\* the files with the file at path written anew by run p
Written(fs, path, p) ==
    {f \in fs : f.path # Resolve(path)} \cup {[path |-> Resolve(path), pt |-> p]}

\* what the callbacks cs leave behind in one training of run p: a
\* checkpoint and, when the export callback is registered, an export
RECURSIVE CallbackFiles(_, _, _)
CallbackFiles(fs, cs, p) ==
    IF cs = <<>> THEN fs
    ELSE LET cb == Head(cs) IN
         CallbackFiles(
            IF cb.cls = "ModelCheckpoint"
                THEN Written(fs, cb.dirpath \o S_last_ckpt, p)
            ELSE IF cb.cls = "ModelExport"
                THEN Written(fs, cb.dirpath \o S_model_onnx, p)
            ELSE fs,
            Tail(cs), p)

-----------------------------------------------------------------------------
(* The random sources *)

\* state of one source: where its seed came from, the seed, and how many
\* values were drawn since
UnseededRng(origin) == [origin |-> origin, seed |-> [t |-> "none"], draws |-> 0]

SeededRng(s) == [origin |-> "seed", seed |-> s, draws |-> 0]

Draw(r) == [r EXCEPT !.draws = @ + 1]

\* at process start random and numpy are seeded from the operating system,
\* torch from its built-in default seed
InitialRng ==
    [random |-> UnseededRng("os"), numpy |-> UnseededRng("os"),
     torch |-> UnseededRng("default")]

\* run.py:72-75
SeedAll(s) == [random |-> SeededRng(s), numpy |-> SeededRng(s), torch |-> SeededRng(s)]

-----------------------------------------------------------------------------
(* Inputs *)

ValuesOf(k) ==
    IF k = K_lr THEN {FloatVal(1, 3), FloatVal(1, 2)} ELSE {IntVal(42)}

SeqsUpTo(S, n) == UNION {[1..m -> S] : m \in 0..n}

\* what the YAML file may give for key k: a scalar, or a non-empty list
Candidates(k) ==
    ValuesOf(k) \cup {ListVal(l) : l \in SeqsUpTo(ValuesOf(k), MaxListLen) \ {<<>>}}

ParamItems == UNION {{[k |-> k, v |-> v] : v \in Candidates(k)} : k \in ParamNames}

\* the number of grid points of a mapping
RECURSIVE GridSize(_)
GridSize(s) ==
    IF s = <<>> THEN 1
    ELSE (IF Head(s).v.t = "list" THEN Len(Head(s).v.items) ELSE 1)
            * GridSize(Tail(s))

\* the "parameters" mapping, in file order: the keys of a mapping are distinct
ParamMappings ==
    {s \in SeqsUpTo(ParamItems, Cardinality(ParamNames)) :
        /\ \A i, j \in 1..Len(s) : i # j => s[i].k # s[j].k
        /\ GridSize(s) <= MaxPoints}

GlobalEntries ==
    {K_lr \o <<"=">> \o PyStr(FloatVal(1, 1)),
     K_seed \o <<"=">> \o PyStr(IntVal(7)),
     K_x \o <<"=">> \o PyStr(IntVal(1))}

GlobalOverrides == SeqsUpTo(GlobalEntries, MaxOverrides)

\* cfg.logging.path: a path relative to the working directory, or absolute
LoggingPaths == {<<"o">>, <<"/", "o">>}

\* cfg.logging.export_period
ExportPeriods == {0, 1}

\* the logging section of the configuration template
Templates ==
    {[path |-> d, export_period |-> n] : d \in LoggingPaths, n \in ExportPeriods}

DefaultTemplate == [path |-> <<"o">>, export_period |-> 1]

-----------------------------------------------------------------------------
(* The state machine *)

MainPcs == {"normalize", "expand", "loop", "compose", "checkpoint", "run",
            "done", "aborted"}

RunPcs == {"idle", "resolve", "dataset", "prepare", "model", "logger",
           "callbacks", "seed", "snapshot", "trainer", "fit", "export",
           "evaluate", "report", "failed"}

\* the calls of run() that this model lets raise
FallibleSteps == {"dataset", "prepare", "model", "snapshot", "trainer", "fit",
                  "export", "evaluate"}

Ev(op, arg) == [op |-> op, pt |-> idx, arg |-> arg]

Init ==
    /\ pc = "normalize"
    /\ experiment_params \in ParamMappings
    /\ params0 = experiment_params
    /\ overrides \in GlobalOverrides
    /\ overrides0 = overrides
    /\ param_grid = <<>>
    /\ idx = 0
    /\ param_overrides = <<>>
    /\ cfg = NoCfg
    /\ run_pc = "idle"
    /\ rng = InitialRng
    /\ git_diff \in {"", "diff"}
    /\ base_config = DefaultTemplate
    /\ files = {}
    /\ fs_ckpt \in BOOLEAN
    /\ log = <<>>
    /\ stderr = <<>>
    /\ trace = <<>>

\* run.py:115-117
Normalize ==
    /\ pc = "normalize"
    /\ experiment_params' = Normalized(experiment_params)
    /\ pc' = "expand"
    /\ UNCHANGED <<params0, overrides, overrides0, param_grid, idx, param_overrides, cfg,
                   run_pc, rng, git_diff, base_config, files, fs_ckpt, log, stderr, trace>>

\* run.py:119
Expand ==
    /\ pc = "expand"
    /\ param_grid' = ParameterGrid(experiment_params)
    /\ idx' = 0
    /\ pc' = "loop"
    /\ UNCHANGED <<experiment_params, params0, overrides, overrides0, param_overrides,
                   cfg, run_pc, rng, git_diff, base_config, files, fs_ckpt, log, stderr, trace>>

\* as NextPoint, with the point's list built in the global list itself
NextPoint_Aliased ==
    /\ pc = "loop"
    /\ idx < Len(param_grid)
    /\ idx' = idx + 1
    /\ param_overrides' = PointOverrides(param_grid[idx + 1], overrides)
    /\ overrides' = param_overrides'
    /\ pc' = "compose"
    /\ UNCHANGED <<experiment_params, params0, overrides0, param_grid, cfg,
                   run_pc, rng, git_diff, base_config, files, fs_ckpt, log, stderr, trace>>

\* run.py:120-127: the next point of the grid and its override list
NextPoint ==
    /\ pc = "loop"
    /\ idx < Len(param_grid)
    /\ idx' = idx + 1
    /\ param_overrides' = PointOverrides(param_grid[idx + 1], overrides)
    /\ pc' = "compose"
    /\ UNCHANGED <<experiment_params, params0, overrides, overrides0, param_grid, cfg,
                   run_pc, rng, git_diff, base_config, files, fs_ckpt, log, stderr, trace>>

\* run.py:120: the grid is exhausted, main returns
SweepDone ==
    /\ pc = "loop"
    /\ idx = Len(param_grid)
    /\ pc' = "done"
    /\ UNCHANGED <<experiment_params, params0, overrides, overrides0, param_grid, idx,
                   param_overrides, cfg, run_pc, rng, git_diff, base_config, files, fs_ckpt, log,
                   stderr, trace>>

\* run.py:129: compose returns the configuration
ComposeOk ==
    /\ pc = "compose"
    /\ Compose(param_overrides).ok
    /\ cfg' = Compose(param_overrides).cfg
    /\ trace' = Append(trace, Ev("compose", [ovs |-> param_overrides, cfg |-> cfg']))
    /\ pc' = "checkpoint"
    /\ UNCHANGED <<experiment_params, params0, overrides, overrides0, param_grid, idx,
                   param_overrides, run_pc, rng, git_diff, base_config, files, fs_ckpt, log, stderr>>

\* mutant: the failure is caught and the sweep goes on with the next point
ComposeRaises_SkipPoint ==
    /\ pc = "compose"
    /\ ~Compose(param_overrides).ok
    /\ trace' = Append(trace, Ev("compose_raised", [ovs |-> param_overrides, cfg |-> NoCfg]))
    /\ stderr' = Append(stderr, [exc |-> "compose", pt |-> idx])
    /\ pc' = "loop"
    /\ UNCHANGED <<experiment_params, params0, overrides, overrides0, param_grid, idx,
                   param_overrides, cfg, run_pc, rng, git_diff, base_config, files, fs_ckpt, log>>

\* run.py:129: compose raises; nothing in main catches it
ComposeRaises ==
    /\ pc = "compose"
    /\ ~Compose(param_overrides).ok
    /\ trace' = Append(trace, Ev("compose_raised", [ovs |-> param_overrides, cfg |-> NoCfg]))
    /\ stderr' = Append(stderr, [exc |-> "compose", pt |-> idx])
    /\ pc' = "aborted"
    /\ UNCHANGED <<experiment_params, params0, overrides, overrides0, param_grid, idx,
                   param_overrides, cfg, run_pc, rng, git_diff, base_config, files, fs_ckpt, log>>

\* set_latest_checkpoint: the resume field gets the path of the latest
\* checkpoint when the checkpoint directory holds one, and stays unset otherwise
LatestCheckpoint(c, exists) ==
    [c EXCEPT !.resume = IF exists THEN "last" ELSE "unset"]

\* mutant: run() is entered without the checkpoint having been resolved
SetLatestCheckpoint_NotCalled ==
    /\ pc = "checkpoint"
    /\ pc' = "run"
    /\ run_pc' = "resolve"
    /\ UNCHANGED <<experiment_params, params0, overrides, overrides0, param_grid, idx,
                   param_overrides, cfg, rng, git_diff, base_config, files, fs_ckpt, log, stderr, trace>>

\* as SetLatestCheckpoint, resolving as if the directory always held a checkpoint
SetLatestCheckpoint_IgnoresDirectory ==
    /\ pc = "checkpoint"
    /\ cfg' = LatestCheckpoint(cfg, TRUE)
    /\ trace' = Append(trace, Ev("set_latest_checkpoint", cfg'))
    /\ pc' = "run"
    /\ run_pc' = "resolve"
    /\ UNCHANGED <<experiment_params, params0, overrides, overrides0, param_grid, idx,
                   param_overrides, rng, git_diff, base_config, files, fs_ckpt, log, stderr>>

\* run.py:131-133: set_latest_checkpoint(cfg), then run(cfg.model) is entered
SetLatestCheckpoint ==
    /\ pc = "checkpoint"
    /\ cfg' = LatestCheckpoint(cfg, fs_ckpt)
    /\ trace' = Append(trace, Ev("set_latest_checkpoint", cfg'))
    /\ pc' = "run"
    /\ run_pc' = "resolve"
    /\ UNCHANGED <<experiment_params, params0, overrides, overrides0, param_grid, idx,
                   param_overrides, rng, git_diff, base_config, files, fs_ckpt, log, stderr>>

\* what no step of run() assigns
RunFrame ==
    UNCHANGED <<experiment_params, params0, overrides, overrides0, param_grid, idx,
                param_overrides, git_diff, base_config, stderr>>

\* run.py:32-36: the configuration is resolved, frozen and logged
RunResolve ==
    /\ pc = "run" /\ run_pc = "resolve"
    /\ log' = Append(log, [msg |-> "Configuration", arg |-> cfg])
    /\ trace' = Append(trace, Ev("run", cfg))
    /\ run_pc' = "dataset"
    /\ RunFrame
    /\ UNCHANGED <<pc, cfg, rng, files, fs_ckpt>>

\* run.py:47: dm = instantiate(cfg.dataset)
RunDataset ==
    /\ pc = "run" /\ run_pc = "dataset"
    /\ trace' = Append(trace, Ev("instantiate_dataset", rng))
    /\ run_pc' = "prepare"
    /\ RunFrame
    /\ UNCHANGED <<pc, cfg, rng, files, fs_ckpt, log>>

\* as RunPrepare, with the data module's setup() called after prepare_data()
RunPrepare_CallsSetup ==
    /\ pc = "run" /\ run_pc = "prepare"
    /\ trace' = trace \o <<Ev("prepare_data", rng), Ev("setup", rng)>>
    /\ run_pc' = "model"
    /\ RunFrame
    /\ UNCHANGED <<pc, cfg, rng, files, fs_ckpt, log>>

\* run.py:48: dm.prepare_data()
RunPrepare ==
    /\ pc = "run" /\ run_pc = "prepare"
    /\ trace' = Append(trace, Ev("prepare_data", rng))
    /\ run_pc' = "model"
    /\ RunFrame
    /\ UNCHANGED <<pc, cfg, rng, files, fs_ckpt, log>>

\* run.py:51: the skeleton is read and the model is built; the model's
\* initial weights are drawn from the torch source as it is then
RunModel ==
    /\ pc = "run" /\ run_pc = "model"
    /\ trace' = trace \o <<Ev("get_skeleton", rng), Ev("build_model", rng)>>
    /\ rng' = [rng EXCEPT !.torch = Draw(@)]
    /\ run_pc' = "logger"
    /\ RunFrame
    /\ UNCHANGED <<pc, cfg, files, fs_ckpt, log>>

\* run.py:54-59
RunLogger ==
    /\ pc = "run" /\ run_pc = "logger"
    /\ trace' = Append(trace, Ev("logger", rng))
    /\ run_pc' = "callbacks"
    /\ RunFrame
    /\ UNCHANGED <<pc, cfg, rng, files, fs_ckpt, log>>

\* run.py:62-68
RunCallbacks ==
    /\ pc = "run" /\ run_pc = "callbacks"
    /\ trace' = Append(trace, Ev("callbacks", Callbacks(cfg)))
    /\ run_pc' = "seed"
    /\ RunFrame
    /\ UNCHANGED <<pc, cfg, rng, files, fs_ckpt, log>>

\* mutant: only the training framework's source is seeded
RunSeed_TorchOnly ==
    /\ pc = "run" /\ run_pc = "seed"
    /\ rng' = [rng EXCEPT !.torch = SeededRng(cfg.v[K_seed])]
    /\ log' = Append(log, [msg |-> "Random Seed", arg |-> cfg.v[K_seed]])
    /\ trace' = Append(trace, Ev("seed", cfg.v[K_seed]))
    /\ run_pc' = "snapshot"
    /\ RunFrame
    /\ UNCHANGED <<pc, cfg, files, fs_ckpt>>

\* mutant: the sources are seeded in the first run of the process only
RunSeed_OncePerProcess ==
    /\ pc = "run" /\ run_pc = "seed"
    /\ rng' = IF rng.torch.origin = "seed" THEN rng ELSE SeedAll(cfg.v[K_seed])
    /\ log' = Append(log, [msg |-> "Random Seed", arg |-> cfg.v[K_seed]])
    /\ trace' = Append(trace, Ev("seed", cfg.v[K_seed]))
    /\ run_pc' = "snapshot"
    /\ RunFrame
    /\ UNCHANGED <<pc, cfg, files, fs_ckpt>>

\* run.py:72-76: the three sources are seeded with cfg.seed
RunSeed ==
    /\ pc = "run" /\ run_pc = "seed"
    /\ rng' = SeedAll(cfg.v[K_seed])
    /\ log' = Append(log, [msg |-> "Random Seed", arg |-> cfg.v[K_seed]])
    /\ trace' = Append(trace, Ev("seed", cfg.v[K_seed]))
    /\ run_pc' = "snapshot"
    /\ RunFrame
    /\ UNCHANGED <<pc, cfg, files, fs_ckpt>>

\* as RunSnapshot, with the callbacks constructed after the snapshot
RunSnapshot_ThenCallbacks ==
    /\ pc = "run" /\ run_pc = "snapshot"
    /\ log' = Append(log, [msg |-> "Logging saved to", arg |-> idx])
    /\ trace' = trace \o <<Ev("makedirs", CurrentLogPath(cfg))>>
                      \o (IF git_diff # ""
                          THEN <<Ev("write_patch",
                                    CurrentLogPath(cfg) \o S_git_diff_patch)>>
                          ELSE <<>>)
                      \o <<Ev("callbacks", Callbacks(cfg))>>
    /\ files' = IF git_diff # ""
                    THEN Written(files, CurrentLogPath(cfg) \o S_git_diff_patch, idx)
                    ELSE files
    /\ run_pc' = "trainer"
    /\ RunFrame
    /\ UNCHANGED <<pc, cfg, rng, fs_ckpt>>

\* as RunSnapshot, with the patch file written whatever the diff is
RunSnapshot_AlwaysWrites ==
    /\ pc = "run" /\ run_pc = "snapshot"
    /\ log' = Append(log, [msg |-> "Logging saved to", arg |-> idx])
    /\ trace' = trace \o <<Ev("makedirs", CurrentLogPath(cfg)),
                           Ev("write_patch", CurrentLogPath(cfg) \o S_git_diff_patch)>>
    /\ files' = Written(files, CurrentLogPath(cfg) \o S_git_diff_patch, idx)
    /\ run_pc' = "trainer"
    /\ RunFrame
    /\ UNCHANGED <<pc, cfg, rng, fs_ckpt>>

\* run.py:79-86: the log directory is created and a non-empty diff is written
RunSnapshot ==
    /\ pc = "run" /\ run_pc = "snapshot"
    /\ log' = Append(log, [msg |-> "Logging saved to", arg |-> idx])
    /\ trace' = trace \o <<Ev("makedirs", CurrentLogPath(cfg))>>
                      \o (IF git_diff # ""
                          THEN <<Ev("write_patch",
                                    CurrentLogPath(cfg) \o S_git_diff_patch)>>
                          ELSE <<>>)
    /\ files' = IF git_diff # ""
                    THEN Written(files, CurrentLogPath(cfg) \o S_git_diff_patch, idx)
                    ELSE files
    /\ run_pc' = "trainer"
    /\ RunFrame
    /\ UNCHANGED <<pc, cfg, rng, fs_ckpt>>

\* run.py:89: trainer = pl.Trainer(...)
RunTrainer ==
    /\ pc = "run" /\ run_pc = "trainer"
    /\ trace' = Append(trace, Ev("trainer", rng))
    /\ run_pc' = "fit"
    /\ RunFrame
    /\ UNCHANGED <<pc, cfg, rng, files, fs_ckpt, log>>

\* as RunFit, with evaluation following the training directly
RunFit_SkipsExport ==
    /\ pc = "run" /\ run_pc = "fit"
    /\ trace' = Append(trace, Ev("fit", rng))
    /\ rng' = [random |-> Draw(rng.random), numpy |-> Draw(rng.numpy),
               torch |-> Draw(rng.torch)]
    /\ fs_ckpt' = TRUE
    /\ files' = CallbackFiles(files, Callbacks(cfg), idx)
    /\ run_pc' = "evaluate"
    /\ RunFrame
    /\ UNCHANGED <<pc, cfg, log>>

\* run.py:90: trainer.fit returns; training drew from every source and the
\* checkpoint callback left its artifacts
RunFit ==
    /\ pc = "run" /\ run_pc = "fit"
    /\ trace' = Append(trace, Ev("fit", rng))
    /\ rng' = [random |-> Draw(rng.random), numpy |-> Draw(rng.numpy),
               torch |-> Draw(rng.torch)]
    /\ fs_ckpt' = TRUE
    /\ files' = CallbackFiles(files, Callbacks(cfg), idx)
    /\ run_pc' = "export"
    /\ RunFrame
    /\ UNCHANGED <<pc, cfg, log>>

\* run.py:93: model.export(...)
RunExport ==
    /\ pc = "run" /\ run_pc = "export"
    /\ trace' = Append(trace, Ev("export", LogDir(cfg) \o S_model_onnx))
    /\ files' = Written(files, LogDir(cfg) \o S_model_onnx, idx)
    /\ run_pc' = "evaluate"
    /\ RunFrame
    /\ UNCHANGED <<pc, cfg, rng, fs_ckpt, log>>

\* run.py:96: metrics = model.evaluate()
RunEvaluate ==
    /\ pc = "run" /\ run_pc = "evaluate"
    /\ trace' = Append(trace, Ev("evaluate", rng))
    /\ run_pc' = "report"
    /\ RunFrame
    /\ UNCHANGED <<pc, cfg, rng, files, fs_ckpt, log>>

\* run.py:98-103: the table is printed and run() returns to the loop
RunReport ==
    /\ pc = "run" /\ run_pc = "report"
    /\ trace' = Append(trace, Ev("report", rng))
    /\ run_pc' = "idle"
    /\ pc' = "loop"
    /\ RunFrame
    /\ UNCHANGED <<cfg, rng, files, fs_ckpt, log>>

\* as RunRaises, with a handler that clears the failed run's files
RunRaises_Cleanup ==
    /\ pc = "run" /\ run_pc \in FallibleSteps
    /\ trace' = Append(trace, Ev("raised", run_pc))
    /\ stderr' = Append(stderr, [exc |-> run_pc, pt |-> idx])
    /\ files' = {f \in files : f.pt # idx}
    /\ run_pc' = "failed"
    /\ pc' = "aborted"
    /\ UNCHANGED <<experiment_params, params0, overrides, overrides0, param_grid, idx,
                   param_overrides, git_diff, base_config, cfg, rng,
                   fs_ckpt, log>>

\* a call of run() raises: neither run() (run.py:30-103) nor main()
\* (run.py:120-133) has a handler, so the exception leaves main and the
\* interpreter prints the traceback
RunRaises ==
    /\ pc = "run" /\ run_pc \in FallibleSteps
    /\ trace' = Append(trace, Ev("raised", run_pc))
    /\ stderr' = Append(stderr, [exc |-> run_pc, pt |-> idx])
    /\ run_pc' = "failed"
    /\ pc' = "aborted"
    /\ UNCHANGED <<experiment_params, params0, overrides, overrides0, param_grid, idx,
                   param_overrides, git_diff, base_config, files, cfg, rng,
                   fs_ckpt, log>>

Next ==
    \/ Normalize
    \/ Expand
    \/ NextPoint
    \/ SweepDone
    \/ ComposeOk
    \/ ComposeRaises
    \/ SetLatestCheckpoint
    \/ RunResolve
    \/ RunDataset
    \/ RunPrepare
    \/ RunModel
    \/ RunLogger
    \/ RunCallbacks
    \/ RunSeed
    \/ RunSnapshot
    \/ RunTrainer
    \/ RunFit
    \/ RunExport
    \/ RunEvaluate
    \/ RunReport
    \/ RunRaises

Spec == Init /\ [][Next]_vars

\* the sweeps over at most one parameter, under every template
InitRun ==
    /\ pc = "normalize"
    /\ experiment_params \in {s \in ParamMappings : Len(s) <= 1}
    /\ params0 = experiment_params
    /\ overrides \in GlobalOverrides
    /\ overrides0 = overrides
    /\ param_grid = <<>>
    /\ idx = 0
    /\ param_overrides = <<>>
    /\ cfg = NoCfg
    /\ run_pc = "idle"
    /\ rng = InitialRng
    /\ git_diff \in {"", "diff"}
    /\ base_config \in Templates
    /\ files = {}
    /\ fs_ckpt \in BOOLEAN
    /\ log = <<>>
    /\ stderr = <<>>
    /\ trace = <<>>

SpecRun == InitRun /\ [][Next]_vars

TypeOK ==
    /\ pc \in MainPcs
    /\ run_pc \in RunPcs
    /\ idx \in 0..Len(param_grid)
    /\ fs_ckpt \in BOOLEAN
    /\ base_config \in Templates
    /\ \A f \in files : f.pt \in 1..idx /\ IsAbs(f.path)

-----------------------------------------------------------------------------
(* Reading the history *)

Events(op) == {e \in 1..Len(trace) : trace[e].op = op}

EventsAt(op, p) == {e \in 1..Len(trace) : trace[e].op = op /\ trace[e].pt = p}

\* the events of run(): everything but the calls main() makes itself
MainOps == {"compose", "compose_raised", "set_latest_checkpoint"}

RunEvents(p) == {e \in 1..Len(trace) : trace[e].op \notin MainOps /\ trace[e].pt = p}

Expanded == pc \notin {"normalize", "expand"}

\* the global override that decides key k: the last one that names it
DecidesKey(i) ==
    \A j \in (i + 1)..Len(overrides0) :
        OverrideKey(overrides0[j]) # OverrideKey(overrides0[i])

-----------------------------------------------------------------------------
(* C1: in every override list handed to compose the grid's entries (one   *)
(* per key of the grid point, in the point's order) come first and the    *)
(* global overrides follow, and in every configuration compose returns, a *)
(* key named by a global override has the value of the last global        *)
(* override that names it, whatever the grid assigns to that key.         *)
C1_GlobalOverridesTakePrecedence ==
    \A e \in Events("compose") \cup Events("compose_raised") :
        LET ovs == trace[e].arg.ovs
            n == Len(ovs) - Len(overrides0)
            point == param_grid[trace[e].pt]
        IN /\ n = Len(point)
           /\ \A i \in 1..n : OverrideKey(ovs[i]) = point[i].k
           /\ \A i \in 1..Len(overrides0) : ovs[n + i] = overrides0[i]
           /\ trace[e].op = "compose" =>
                \A i \in 1..Len(overrides0) :
                    DecidesKey(i) =>
                        trace[e].arg.cfg.v[OverrideKey(overrides0[i])]
                            = ParseValue(OverrideValue(overrides0[i]))

\* the sweep lr in {0.001, 0.01} with the global override lr=0.1 has ended:
\* two compositions, both with lr = 0.1
C1_Witness ==
    /\ pc = "done"
    /\ overrides0 = << <<"l", "r", "=", "0", ".", "1">> >>
    /\ \E a, b \in Events("compose") :
        /\ trace[a].pt = 1 /\ trace[b].pt = 2
        /\ param_grid[1] = <<[k |-> K_lr, v |-> FloatVal(1, 3)]>>
        /\ param_grid[2] = <<[k |-> K_lr, v |-> FloatVal(1, 2)]>>
        /\ trace[a].arg.cfg.v[K_lr] = FloatVal(1, 1)
        /\ trace[b].arg.cfg.v[K_lr] = FloatVal(1, 1)

-----------------------------------------------------------------------------
(* The grid, stated from the file's mapping *)

\* the candidate values of the i-th parameter of the file
ValueList(i) ==
    IF params0[i].v.t = "list" THEN params0[i].v.items ELSE <<params0[i].v>>

RECURSIVE ProductOfLens(_)
ProductOfLens(i) == IF i = 0 THEN 1 ELSE Len(ValueList(i)) * ProductOfLens(i - 1)

\* one index into each parameter's value list
IndexTuples ==
    {t \in [1..Len(params0) -> 1..MaxListLen] :
        \A i \in 1..Len(params0) : t[i] <= Len(ValueList(i))}

Lookup(point, key) == point[CHOOSE j \in 1..Len(point) : point[j].k = key].v

\* grid point p assigns to every parameter the value that t selects
PointIs(p, t) ==
    /\ Len(param_grid[p]) = Len(params0)
    /\ \A i \in 1..Len(params0) :
        /\ \E j \in 1..Len(param_grid[p]) : param_grid[p][j].k = params0[i].k
        /\ Lookup(param_grid[p], params0[i].k) = ValueList(i)[t[i]]

KeyOrders(n) ==
    {q \in [1..n -> 1..n] : \A i, j \in 1..n : i # j => q[i] # q[j]}

(* C2: the grid has exactly n1 * ... * nk points, every point of the      *)
(* Cartesian product of the value lists is in it and it holds nothing     *)
(* else; expanding the same mapping again, with its keys listed in any    *)
(* order, gives the identical sequence; and a sweep that ends has         *)
(* composed every point exactly once.                                     *)
C2_GridIsCartesianProduct ==
    Expanded =>
        /\ Len(param_grid) = ProductOfLens(Len(params0))
        /\ \A t \in IndexTuples : \E p \in 1..Len(param_grid) : PointIs(p, t)
        /\ \A p \in 1..Len(param_grid) : \E t \in IndexTuples : PointIs(p, t)
        /\ \A q \in KeyOrders(Len(experiment_params)) :
            ParameterGrid([i \in 1..Len(experiment_params) |->
                              experiment_params[q[i]]]) = param_grid
        /\ pc = "done" =>
            \A p \in 1..Len(param_grid) :
                Cardinality(EventsAt("compose", p)) = 1

\* a sweep over two parameters with two values each has ended after four
\* compositions
C2_Witness ==
    /\ pc = "done"
    /\ Len(params0) = 2
    /\ Len(ValueList(1)) = 2 /\ Len(ValueList(2)) = 2
    /\ ValueList(1)[1] # ValueList(1)[2]
    /\ Cardinality(Events("compose")) = 4

-----------------------------------------------------------------------------
\* the candidate values the file gives for key
ValueListOf(key) ==
    ValueList(CHOOSE i \in 1..Len(params0) : params0[i].k = key)

\* how many consecutive grid points share the value at position i of a point:
\* the product of the list lengths of the positions after i
RECURSIVE Stride(_, _)
Stride(point, i) ==
    IF i >= Len(point) THEN 1
    ELSE Len(ValueListOf(point[i + 1].k)) * Stride(point, i + 1)

ExampleLr == [k |-> K_lr, v |-> ListVal(<<FloatVal(1, 3), FloatVal(1, 2)>>)]

ExampleSeed == [k |-> K_seed, v |-> IntVal(42)]

(* C3: every grid point lists the parameter names in increasing string    *)
(* order; point number p holds, for each name, the value whose index is   *)
(* the digit of p-1 in the mixed-radix system of the list lengths (last   *)
(* name fastest), which is lexicographic product order; the calls of the  *)
(* sweep are made point after point in that order and the entries handed  *)
(* to compose read back as the point's values; and for {lr: [0.001, 0.01],*)
(* seed: 42} without global overrides a finished sweep made exactly two   *)
(* runs, "lr=0.001","seed=42" and then "lr=0.01","seed=42".               *)
C3_LexicographicOrder ==
    Expanded =>
        /\ \A p \in 1..Len(param_grid) :
            LET point == param_grid[p] IN
            /\ \A i \in 1..(Len(point) - 1) : StrLess(point[i].k, point[i + 1].k)
            /\ \A i \in 1..Len(point) :
                LET list == ValueListOf(point[i].k) IN
                point[i].v = list[(((p - 1) \div Stride(point, i)) % Len(list)) + 1]
        /\ \A e \in 1..(Len(trace) - 1) : trace[e].pt <= trace[e + 1].pt
        /\ \A e \in Events("compose") :
            \A i \in 1..Len(param_grid[trace[e].pt]) :
                ParseValue(OverrideValue(trace[e].arg.ovs[i]))
                    = param_grid[trace[e].pt][i].v
        /\ ( /\ params0 \in {<<ExampleLr, ExampleSeed>>, <<ExampleSeed, ExampleLr>>}
             /\ overrides0 = <<>>
             /\ pc = "done" ) =>
                /\ Cardinality(Events("compose")) = 2
                /\ Cardinality(Events("report")) = 2
                /\ \E a \in EventsAt("compose", 1), b \in EventsAt("compose", 2) :
                    /\ a < b
                    /\ trace[a].arg.ovs =
                        << <<"l", "r", "=", "0", ".", "0", "0", "1">>,
                           <<"s", "e", "e", "d", "=", "4", "2">> >>
                    /\ trace[b].arg.ovs =
                        << <<"l", "r", "=", "0", ".", "0", "1">>,
                           <<"s", "e", "e", "d", "=", "4", "2">> >>
                    /\ trace[a].arg.cfg.v[K_seed] = IntVal(42)
                    /\ trace[b].arg.cfg.v[K_seed] = IntVal(42)

\* the example sweep, with seed listed before lr in the file, has ended
C3_Witness ==
    /\ pc = "done"
    /\ params0 = <<ExampleSeed, ExampleLr>>
    /\ overrides0 = <<>>
    /\ Cardinality(Events("report")) = 2

-----------------------------------------------------------------------------
\* the keys the global overrides name
GlobalKeys == {OverrideKey(overrides0[i]) : i \in 1..Len(overrides0)}

(* C4: with an empty parameter mapping the grid is the one empty point;   *)
(* the only override list handed to compose is the global override list   *)
(* alone (the empty list when there are none), so the composed            *)
(* configuration is the template's except for the global overrides; and a *)
(* sweep that ends has made exactly one run.                               *)
C4_EmptyMappingOneRun ==
    params0 = <<>> =>
        /\ Expanded => param_grid = << <<>> >>
        /\ \A e \in Events("compose") \cup Events("compose_raised") :
            /\ trace[e].pt = 1
            /\ trace[e].arg.ovs = overrides0
        /\ \A e \in Events("compose") :
            \A k \in TemplateKeys \ GlobalKeys :
                trace[e].arg.cfg.v[k] = TemplateVal(k)
        /\ pc = "done" =>
            /\ idx = 1
            /\ Cardinality(Events("compose")) = 1
            /\ Cardinality(Events("set_latest_checkpoint")) = 1
            /\ Cardinality(Events("report")) = 1

\* a sweep with no parameters and no global overrides has ended: its one
\* composition got the empty override list
C4_Witness ==
    /\ params0 = <<>>
    /\ overrides0 = <<>>
    /\ pc = "done"
    /\ \E e \in Events("compose") : trace[e].arg.ovs = <<>>
    /\ Cardinality(Events("report")) = 1

-----------------------------------------------------------------------------
(* C5: a run that fails in pipeline build, model build, training, export  *)
(* or evaluation is confined to that run and the sweep still composes     *)
(* every later grid point: a sweep that has stopped without a composition *)
(* failure has composed every point of the grid.                           *)
C5_SweepContinuesAfterRunFailure ==
    (pc \in {"done", "aborted"} /\ Events("compose_raised") = {}) =>
        \A p \in 1..Len(param_grid) : EventsAt("compose", p) # {}

(* C6: when compose fails for a grid point, that failure is the last      *)
(* thing the sweep does: main is aborted with the exception, there is no  *)
(* checkpoint resolution, no run and no second composition for that point *)
(* or any later one.                                                       *)
C6_ComposeFailureIsFatal ==
    \A e \in Events("compose_raised") :
        /\ pc = "aborted"
        /\ run_pc = "idle"
        /\ e = Len(trace)
        /\ idx = trace[e].pt
        /\ \A f \in 1..Len(trace) : trace[f].pt >= trace[e].pt => f = e
        /\ stderr # <<>>
        /\ stderr[Len(stderr)] = [exc |-> "compose", pt |-> trace[e].pt]

\* a grid of two points whose first composition failed on the key x
C6_Witness ==
    /\ pc = "aborted"
    /\ Len(param_grid) = 2
    /\ overrides0 = << <<"x", "=", "1">> >>
    /\ EventsAt("compose_raised", 1) # {}

-----------------------------------------------------------------------------
TerminalOps == {"report", "raised"}

\* the run of point p has begun and has not ended
InProgress(p) ==
    /\ RunEvents(p) # {}
    /\ \A e \in RunEvents(p) : trace[e].op \notin TerminalOps

(* C7: for each grid point the calls are compose, then the checkpoint     *)
(* resolution, exactly once, then run(); the run of a point has printed   *)
(* its report before anything is done for the next point, and a run that  *)
(* raised is the end of the sweep; so no two runs are ever in progress    *)
(* and the checkpoint resolution of a point comes before its training.    *)
C7_StrictlySequential ==
    /\ \A p \in 1..Len(param_grid) :
        /\ Cardinality(EventsAt("compose", p)) <= 1
        /\ Cardinality(EventsAt("set_latest_checkpoint", p)) <= 1
        /\ \A k \in EventsAt("set_latest_checkpoint", p) :
            \E c \in EventsAt("compose", p) : c < k
        /\ \A r \in RunEvents(p) :
            \E k \in EventsAt("set_latest_checkpoint", p) : k < r
        /\ LET reports == EventsAt("report", p)
           IN \A e \in 1..Len(trace) :
                trace[e].pt = p + 1 => \E t \in reports : t < e
        /\ InProgress(p) => (p = idx /\ pc = "run")
    /\ \A e \in Events("raised") : e = Len(trace)
    /\ run_pc \notin {"idle", "failed"} => pc = "run"

\* the second point is in training, after the first run has reported
C7_Witness ==
    /\ run_pc = "export"
    /\ idx = 2
    /\ EventsAt("report", 1) # {}
    /\ EventsAt("set_latest_checkpoint", 2) # {}
    /\ EventsAt("fit", 2) # {}

-----------------------------------------------------------------------------
EventsIn(ops, p) == {e \in 1..Len(trace) : trace[e].op \in ops /\ trace[e].pt = p}

\* the construction steps of run(), run.py:47-68
BuildOps == {"instantiate_dataset", "prepare_data", "get_skeleton",
             "build_model", "logger", "callbacks"}

\* the steps of run() from the snapshot to the training, run.py:79-90
TrainOps == {"makedirs", "write_patch", "trainer", "fit"}

Sources == {"random", "numpy", "torch"}

\* the configuration run() was given for point p
RunCfg(p) == trace[CHOOSE e \in 1..Len(trace) :
                      trace[e].op = "run" /\ trace[e].pt = p].arg

C10_FailureLoggedWithOverrides ==
    pc = "aborted" =>
        \/ \E i \in 1..Len(log) :
            "ovs" \in DOMAIN log[i] /\ log[i].ovs = param_overrides
        \/ \E i \in 1..Len(stderr) :
            "ovs" \in DOMAIN stderr[i] /\ stderr[i].ovs = param_overrides

-----------------------------------------------------------------------------
(* The files of a run *)

\* the last event of the history
LastEvent == trace[Len(trace)]

\* the run of point idx has just raised in one of steps
RaisedIn(steps) ==
    /\ trace # <<>>
    /\ LastEvent.op = "raised"
    /\ LastEvent.pt = idx
    /\ LastEvent.arg \in steps

\* the checkpoint the training of a run with configuration c leaves behind
CheckpointOf(c) == Resolve(LogDir(c) \o S_checkpoints \o S_last_ckpt)

\* the steps of run() after the training, run.py:93-96
AfterTraining == {"export", "evaluate"}

(* C11: a failure in export or evaluation leaves the checkpoints the      *)
(* run's training produced unchanged: when the run of a grid point has    *)
(* raised in export or in evaluation, the checkpoint its training wrote   *)
(* is still on disk and is still the one this run wrote, and the          *)
(* checkpoint directory is still there.                                    *)
C11_FailureAfterTrainingKeepsCheckpoints ==
    RaisedIn(AfterTraining) =>
        /\ [path |-> CheckpointOf(cfg), pt |-> idx] \in files
        /\ fs_ckpt

\* a run raised in evaluation, after its training and its export
C11_Witness ==
    /\ RaisedIn({"evaluate"})
    /\ EventsAt("fit", idx) # {}
    /\ \E f \in files : f.path = CheckpointOf(cfg)

-----------------------------------------------------------------------------
(* Checkpoint resolution *)

\* the steps of run() up to the training: the checkpoint directory gets
\* no new artifact while run() is at one of them
BeforeTraining == {"resolve", "dataset", "prepare", "model", "logger", "callbacks",
                   "seed", "snapshot", "trainer", "fit"}

\* the checkpoint of the configuration has been resolved and the
\* directory has received nothing since
Resolved == pc = "run" /\ run_pc \in BeforeTraining

-----------------------------------------------------------------------------
(* The steps of a run after the wiring *)

\* run.py:79-103: the snapshot, the training, the export, the evaluation
\* and the report, by the event each leaves when it returns
PostWiringOrder == <<"makedirs", "fit", "export", "evaluate", "report">>

PostWiringOps == {PostWiringOrder[i] : i \in DOMAIN PostWiringOrder}

IsPostWiringOf(ev, p) == ev.pt = p /\ ev.op \in PostWiringOps

\* the post-wiring steps the run of point p has completed, in the order
\* in which they returned
StepsOf(p) ==
    LET sel == SelectSeq(trace, LAMBDA ev : IsPostWiringOf(ev, p))
    IN [i \in 1..Len(sel) |-> sel[i].op]

IsPrefix(a, b) == Len(a) <= Len(b) /\ SubSeq(b, 1, Len(a)) = a

(* C13: in every run the steps after the wiring return in the order       *)
(* snapshot, training, export, evaluation, report, each once and none     *)
(* skipped: what a run has completed is always an initial part of that    *)
(* order, a run that reported completed all five, and after a run raised  *)
(* no further step of that run is executed.                                *)
C13_PostWiringOrder ==
    \A p \in 1..idx :
        /\ IsPrefix(StepsOf(p), PostWiringOrder)
        /\ p < idx => StepsOf(p) = PostWiringOrder
        /\ \A r \in EventsAt("raised", p) :
            /\ r = Len(trace)
            /\ run_pc = "failed"

\* the first run went through all five steps and the second raised in
\* the export, after its training
C13_Witness ==
    /\ idx = 2
    /\ RaisedIn({"export"})
    /\ StepsOf(1) = PostWiringOrder
    /\ StepsOf(2) = <<"makedirs", "fit">>

-----------------------------------------------------------------------------
(* The reproducibility snapshot *)

EndsWith(s, suffix) ==
    /\ Len(suffix) <= Len(s)
    /\ SubSeq(s, Len(s) - Len(suffix) + 1, Len(s)) = suffix

\* the patch files that run p wrote and that are on disk
PatchFiles(p) == {f \in files : f.pt = p /\ EndsWith(f.path, S_git_diff_patch)}

(* C14: in every run a git_diff.patch file is written if and only if the  *)
(* working-tree diff is not empty: a run that has taken its snapshot has  *)
(* written the patch exactly when the diff is not empty, the write comes  *)
(* before the trainer is created and before training, and with an empty   *)
(* diff the run writes no patch and leaves no patch file.                  *)
C14_PatchIffDiffNonEmpty ==
    \A p \in 1..idx :
        LET patches == EventsAt("write_patch", p)
            training == EventsIn({"trainer", "fit"}, p)
        IN /\ EventsAt("makedirs", p) # {} => (patches # {} <=> git_diff # "")
           /\ training # {} => (patches # {} <=> git_diff # "")
           /\ \A w \in patches : \A t \in training : w < t
           /\ git_diff = "" => patches = {} /\ PatchFiles(p) = {}
           /\ (p = idx /\ patches # {}) => PatchFiles(p) # {}

\* a run with a non-empty diff has written the patch and has then trained
C14_Witness ==
    /\ git_diff # ""
    /\ \E w \in EventsAt("write_patch", idx), t \in EventsAt("fit", idx) : w < t
    /\ PatchFiles(idx) # {}

-----------------------------------------------------------------------------
(* The run log directory *)

\* the run log directory a file belongs to: the directory that holds it,
\* or the one above when the file lies in checkpoints/ or exports/
ArtifactDir(f) ==
    LET dir == Dirname(f.path)
    IN IF EndsWith(dir, S_checkpoints) \/ EndsWith(dir, S_exports)
       THEN Dirname(dir)
       ELSE dir

(* C15: all the artifacts a run persists live in one run log directory:   *)
(* the directory git_diff.patch is written to is the directory that       *)
(* holds checkpoints/, exports/ and the exported model file, whether the  *)
(* configured logging path is relative or absolute.                        *)
C15_OneRunLogDirectory ==
    \A f, g \in files : f.pt = g.pt => ArtifactDir(f) = ArtifactDir(g)

-----------------------------------------------------------------------------
(* The callbacks *)

\* the classes of the callbacks in the list cs, in list order
Classes(cs) == [i \in DOMAIN cs |-> cs[i].cls]

(* C16: the export callback is registered if and only if the configured   *)
(* export period is strictly positive, the checkpoint callback and the    *)
(* learning-rate callback are registered in every run, and the list is    *)
(* checkpoint, then export when present, then learning rate.               *)
C16_CallbackWiring ==
    \A e \in Events("callbacks") :
        LET classes == Classes(trace[e].arg)
            registered == {classes[i] : i \in DOMAIN classes}
        IN /\ "ModelExport" \in registered <=> base_config.export_period > 0
           /\ "ModelCheckpoint" \in registered
           /\ "LearningRateMonitor" \in registered
           /\ classes \in {<<"ModelCheckpoint", "LearningRateMonitor">>,
                           <<"ModelCheckpoint", "ModelExport", "LearningRateMonitor">>}

\* a run with an export period of zero has wired its callbacks
C16_Witness ==
    /\ base_config.export_period = 0
    /\ \E e \in EventsAt("callbacks", idx) : Len(trace[e].arg) = 2
    /\ run_pc = "seed"

-----------------------------------------------------------------------------
(* The data pipeline *)

\* run.py:48-51: the calls on the data module and the model construction
PipelineOrder == <<"prepare_data", "get_skeleton", "build_model">>

\* the calls run() could make on the data module or to build the model
PipelineOps == {"prepare_data", "setup", "get_skeleton", "build_model"}

IsPipelineOf(ev, p) == ev.pt = p /\ ev.op \in PipelineOps

\* the pipeline calls the run of point p has made, in call order
PipelineCalls(p) ==
    LET sel == SelectSeq(trace, LAMBDA ev : IsPipelineOf(ev, p))
    IN [i \in 1..Len(sel) |-> sel[i].op]

(* C17: in every run the data pipeline's prepare step is called exactly   *)
(* once, then the skeleton is obtained, then the model is built from it,  *)
(* and the pipeline's full setup step is never called by run(): the       *)
(* pipeline calls of a run are always an initial part of prepare,         *)
(* skeleton, model, and are exactly these three once the trainer exists.  *)
C17_SkeletonWithoutSetup ==
    \A p \in 1..idx :
        /\ IsPrefix(PipelineCalls(p), PipelineOrder)
        /\ EventsAt("setup", p) = {}
        /\ EventsAt("trainer", p) # {} =>
            /\ PipelineCalls(p) = PipelineOrder
            /\ Cardinality(EventsAt("prepare_data", p)) = 1
            /\ \A i \in EventsAt("instantiate_dataset", p) :
                \A q \in EventsAt("prepare_data", p) : i < q

\* a run has built its model and created the trainer
C17_Witness ==
    /\ idx >= 1
    /\ run_pc = "fit"
    /\ PipelineCalls(idx) = PipelineOrder

-----------------------------------------------------------------------------
(* Scalar normalisation *)

\* the parameters the file gives as a scalar
ScalarParams == {i \in 1..Len(params0) : params0[i].v.t # "list"}

\* the product of the lengths of the lists among the first i parameters
\* of the file
RECURSIVE ListLens(_)
ListLens(i) ==
    IF i = 0 THEN 1
    ELSE IF params0[i].v.t = "list" THEN Len(params0[i].v.items) * ListLens(i - 1)
    ELSE ListLens(i - 1)

\* the entry a scalar parameter of the file contributes
ScalarEntry(i) == params0[i].k \o <<"=">> \o PyStr(params0[i].v)

(* C18: before expansion every parameter value that is not a list is      *)
(* replaced by a one-element list holding it and list values are left as  *)
(* they are; so a scalar parameter contributes the same "name=value"      *)
(* entry to the override list of every grid point and the number of grid  *)
(* points is the product of the lengths of the lists alone.                *)
C18_ScalarNormalization ==
    /\ pc = "normalize" => experiment_params = params0
    /\ pc # "normalize" =>
        /\ Len(experiment_params) = Len(params0)
        /\ \A i \in 1..Len(params0) :
            /\ experiment_params[i].k = params0[i].k
            /\ experiment_params[i].v.t = "list"
            /\ IF i \in ScalarParams
                THEN experiment_params[i].v.items = <<params0[i].v>>
                ELSE experiment_params[i].v = params0[i].v
    /\ Expanded => Len(param_grid) = ListLens(Len(params0))
    /\ \A e \in Events("compose") \cup Events("compose_raised") :
        LET ovs == trace[e].arg.ovs IN
        \A i \in ScalarParams :
            \E j \in 1..(Len(ovs) - Len(overrides0)) : ovs[j] = ScalarEntry(i)

\* the file gives seed as a scalar, before a list of two learning rates:
\* the second of two runs has begun
C18_Witness ==
    /\ params0 = <<ExampleSeed, ExampleLr>>
    /\ pc = "run"
    /\ idx = 2
    /\ Len(param_grid) = 2
    /\ \A e \in Events("compose") :
        \E j \in 1..Len(trace[e].arg.ovs) : trace[e].arg.ovs[j] = ScalarEntry(1)

-----------------------------------------------------------------------------
(* From the seeding to the trainer *)

\* run.py:79-86: what the snapshot does
SnapshotOps == {"makedirs", "write_patch"}

\* the state a source is in when it has been seeded with s and not drawn from
FreshlySeeded(r, s) == r.origin = "seed" /\ r.seed = s /\ r.draws = 0

(* C19: seeding happens just before the trainer is created: in every run  *)
(* that has created its trainer, the seeding precedes the creation and    *)
(* everything the run did in between is the creation of the log           *)
(* directory and the writing of the diff; no dataset instantiation, data  *)
(* preparation, model construction, logger or callback construction; and  *)
(* the three sources were seeded with the one value cfg.seed and are      *)
(* untouched when the trainer is created.                                  *)
C19_SeedingJustBeforeTrainer ==
    \A p \in 1..idx :
        \A t \in EventsAt("trainer", p) :
            \E s \in EventsAt("seed", p) :
                /\ s < t
                /\ \A e \in (s + 1)..(t - 1) :
                    /\ trace[e].pt = p
                    /\ trace[e].op \in SnapshotOps
                    /\ trace[e].op \notin BuildOps
                /\ trace[s].arg = RunCfg(p).v[K_seed]
                /\ \A src \in Sources : FreshlySeeded(trace[t].arg[src], trace[s].arg)

\* a run with a non-empty diff has seeded, taken its snapshot and created
\* the trainer
C19_Witness ==
    /\ run_pc = "fit"
    /\ git_diff # ""
    /\ \E s \in EventsAt("seed", idx), t \in EventsAt("trainer", idx) : t = s + 3
    /\ \A src \in Sources : FreshlySeeded(rng[src], cfg.v[K_seed])

-----------------------------------------------------------------------------
(* The global override list *)

\* the compositions attempted so far
Compositions == Events("compose") \cup Events("compose_raised")

(* C20: the sweep never modifies the global override list: it is always   *)
(* the list main() was given, and the list handed to compose for a grid   *)
(* point has one entry per parameter followed by the global overrides     *)
(* and nothing more, so entries of earlier points do not pile up in       *)
(* later ones.                                                             *)
C20_GlobalOverridesUnmodified ==
    /\ overrides = overrides0
    /\ \A e \in Compositions :
        LET ovs == trace[e].arg.ovs
            n == Len(param_grid[trace[e].pt])
        IN /\ n = Len(params0)
           /\ Len(ovs) = n + Len(overrides0)
           /\ SubSeq(ovs, n + 1, Len(ovs)) = overrides0
    /\ pc \in {"compose", "checkpoint", "run"} =>
        Len(param_overrides) = Len(params0) + Len(overrides0)

\* the second grid point of a sweep over two parameters, with a global
\* override, has been composed
C20_Witness ==
    /\ Len(params0) = 2
    /\ Len(overrides0) = 1
    /\ \E e \in EventsAt("compose", 2) : Len(trace[e].arg.ovs) = 3

====
